---------------------------- MODULE Spec2Model ----------------------------
(***************************************************************************)
(* Serial-port backend of src-tauri/src/lib.rs: the real-port registry     *)
(* SERIAL_PORTS, the virtual-port buffers VIRTUAL_BUFFERS, their two       *)
(* mutexes, and the commands open / close / write / read.                  *)
(*                                                                         *)
(* Strings are sequences of Unicode code points, byte vectors are          *)
(* sequences of 0..255.  Every command is a sequence of steps of the       *)
(* calling thread: the part before the lock, the lock acquisition, the     *)
(* critical section, and the OS calls made while the lock is held.         *)
(***************************************************************************)
EXTENDS Integers, Sequences, FiniteSets, TLC

VARIABLES
    ports,          \* SERIAL_PORTS: the map port name -> handle
    buffers,        \* VIRTUAL_BUFFERS: the map port name -> bytes
    ports_lock,     \* holder of the SERIAL_PORTS mutex, or NoThread
    buffers_lock,   \* holder of the VIRTUAL_BUFFERS mutex, or NoThread
    live,           \* OS handles that are open (created and not yet dropped)
    opened,         \* number of handles the OS has handed out so far
    pc,             \* per thread: where it is in its command
    frame,          \* per thread: arguments and locals of the running command
    ret,            \* per thread: the last completed command and its result
    writes,         \* number of write commands invoked so far
    pending,        \* history: echo payloads accepted since the last open or read
    written,        \* history: echo payloads accepted since the last open or close
    drained         \* history: echo bytes read since the last open or close

vars == <<ports, buffers, ports_lock, buffers_lock, live, opened, pc, frame,
          ret, writes, pending, written, drained>>

--------------------------------------------------------------------------
(* Bounds of the model. *)

\* Most write commands invoked in one run.
MaxWrites == 2
\* Most handles the OS hands out in one run.
MaxOpens == 2
\* Longest text of the exhaustive hex-decoding specification.
MaxHexLen == 3

--------------------------------------------------------------------------
(* Strings and bytes. *)

\* "VIRTUAL-"
VirtualPrefix == <<86, 73, 82, 84, 85, 65, 76, 45>>
\* "VIRTUAL-COM1", "VIRTUAL-COM2", "VIRTUAL-COM3"
VirtualCom1 == <<86, 73, 82, 84, 85, 65, 76, 45, 67, 79, 77, 49>>
VirtualCom2 == <<86, 73, 82, 84, 85, 65, 76, 45, 67, 79, 77, 50>>
VirtualCom3 == <<86, 73, 82, 84, 85, 65, 76, 45, 67, 79, 77, 51>>
\* "Received: " and "Random-"
ReceivedPrefix == <<82, 101, 99, 101, 105, 118, 101, 100, 58, 32>>
RandomPrefix == <<82, 97, 110, 100, 111, 109, 45>>

\* str::starts_with
StartsWith(s, p) == Len(s) >= Len(p) /\ SubSeq(s, 1, Len(p)) = p

\* UTF-8 encoding of one code point (char::encode_utf8).
Utf8(c) ==
    IF c < 128 THEN <<c>>
    ELSE IF c < 2048 THEN <<192 + (c \div 64), 128 + (c % 64)>>
    ELSE IF c < 65536 THEN
        <<224 + (c \div 4096), 128 + ((c \div 64) % 64), 128 + (c % 64)>>
    ELSE <<240 + (c \div 262144), 128 + ((c \div 4096) % 64),
           128 + ((c \div 64) % 64), 128 + (c % 64)>>

\* str::as_bytes: the UTF-8 bytes of a string.
RECURSIVE as_bytes(_)
as_bytes(s) == IF s = <<>> THEN <<>> ELSE Utf8(Head(s)) \o as_bytes(Tail(s))

\* The byte offsets of a string that are char boundaries (str::is_char_boundary).
RECURSIVE CharBoundaries(_, _)
CharBoundaries(s, at) ==
    IF s = <<>> THEN {at}
    ELSE {at} \cup CharBoundaries(Tail(s), at + Len(Utf8(Head(s))))

\* char::is_whitespace: the code points with the White_Space property.
is_whitespace(c) ==
    c \in (9..13) \cup {32, 133, 160, 5760, 8232, 8233, 8239, 8287, 12288}
          \cup (8192..8202)

\* u64 to decimal text (the {} of format! on an integer).
RECURSIVE to_string(_)
to_string(n) ==
    IF n < 10 THEN <<48 + n>> ELSE to_string(n \div 10) \o <<48 + (n % 10)>>

--------------------------------------------------------------------------
(* hex_string_to_bytes, lib.rs 271-287. *)

HexOk(bs) == [kind |-> "Ok", bytes |-> bs, msg |-> ""]
HexErr(m) == [kind |-> "Err", bytes |-> <<>>, msg |-> m]
HexPanic == [kind |-> "Panic", bytes |-> <<>>, msg |-> "byte index is not a char boundary"]

\* char::to_digit(16) on one byte of the text; -1 when it is no hex digit.
to_digit(b) ==
    IF b \in 48..57 THEN b - 48
    ELSE IF b \in 65..70 THEN b - 55
    ELSE IF b \in 97..102 THEN b - 87
    ELSE -1

\* u8::from_str_radix(src, 16) on the bytes of a non-empty str slice: a lone
\* sign is refused, a leading '+' is skipped, '-' is a digit like any other
\* for an unsigned type; -1 stands for Err(ParseIntError).
RECURSIVE parse_digits(_, _)
parse_digits(digits, acc) ==
    IF digits = <<>> THEN acc
    ELSE IF to_digit(Head(digits)) < 0 THEN -1
    ELSE IF acc * 16 + to_digit(Head(digits)) > 255 THEN -1
    ELSE parse_digits(Tail(digits), acc * 16 + to_digit(Head(digits)))

from_str_radix(src) ==
    IF src = <<>> THEN -1
    ELSE IF Head(src) \in {43, 45} /\ Len(src) = 1 THEN -1
    ELSE IF Head(src) = 43 THEN parse_digits(Tail(src), 0)
    ELSE parse_digits(src, 0)

\* hex.chars().filter(|c| !c.is_whitespace()).collect()
hex_clean(hex) == SelectSeq(hex, LAMBDA c : ~is_whitespace(c))

\* The map over (0..len).step_by(2) collected into a Result: groups are
\* decoded in order, the first Err ends the iteration, and slicing
\* &hex_clean[i..i + 2] off a char boundary panics.
RECURSIVE hex_groups(_, _, _)
hex_groups(bs, bounds, i) ==
    IF i >= Len(bs) THEN HexOk(<<>>)
    ELSE IF i \notin bounds \/ (i + 2) \notin bounds THEN HexPanic
    ELSE LET v == from_str_radix(SubSeq(bs, i + 1, i + 2)) IN
         IF v < 0 THEN HexErr("Invalid hex: invalid digit found in string")
         ELSE LET rest == hex_groups(bs, bounds, i + 2) IN
              IF rest.kind = "Ok" THEN HexOk(<<v>> \o rest.bytes) ELSE rest

hex_string_to_bytes(hex) ==
    LET clean == hex_clean(hex)
        bs == as_bytes(clean)
    IN  IF Len(bs) % 2 # 0 THEN HexErr("Hex string length must be even")
        ELSE hex_groups(bs, CharBoundaries(clean, 0), 0)

--------------------------------------------------------------------------
(* The state: two maps, two mutexes, the OS handles, the calling threads. *)

Threads == {"t1", "t2"}
NoThread == "none"

\* HashMap::insert and HashMap::remove on a map kept as a function whose
\* domain is the set of keys present.
MapInsert(map, key, value) ==
    [k \in (DOMAIN map) \cup {key} |-> IF k = key THEN value ELSE map[k]]
MapRemove(map, key) == [k \in (DOMAIN map) \ {key} |-> map[k]]
EmptyMap == [k \in {} |-> <<>>]

\* The entry of the map under key, as a set: the Option that insert and
\* remove give back.
Lookup(map, key) == IF key \in DOMAIN map THEN {map[key]} ELSE {}

\* A Box<dyn SerialPort>: the OS handle hid with the settings it was built
\* with and its current read timeout.
Handle(hid, data_bits, stop_bits, parity, timeout) ==
    [hid |-> hid, data_bits |-> data_bits, stop_bits |-> stop_bits,
     parity |-> parity, timeout |-> timeout]
NoHandle == Handle(0, "Eight", "One", "None", 0)

\* What an OS call of a command gave: which call, how it ended, and the
\* bytes a read put into the buffer.
OsOutcome(call, kind, data) == [call |-> call, kind |-> kind, data |-> data]
NoOsCall == OsOutcome("none", "None", <<>>)

\* The arguments and locals of the command a thread runs: the text (data)
\* and the payload of a write, the copy of the buffer (data) of a virtual
\* read, the port an open built or a lookup found, the outcome of its last
\* OS call.
EmptyFrame ==
    [op |-> "none", port_name |-> <<>>, data |-> <<>>, is_hex |-> FALSE,
     timeout_ms |-> 0, data_bits |-> 0, stop_bits |-> 0, parity |-> "",
     bytes_to_send |-> <<>>, port |-> NoHandle, os |-> NoOsCall]

\* What a command returned: Ok or Err with the message template, its
\* argument (a byte count) and the description of the error it wraps, or Ok
\* with the bytes read.  A command that panicked has not returned: kind
\* "Panic".
Result(kind, msg, detail, n, bytes) ==
    [kind |-> kind, msg |-> msg, detail |-> detail, n |-> n, bytes |-> bytes]

\* The record of a completed command: the command and its port name, its
\* result r, and what it met on the way: the outcome of its last OS call and
\* the entry its insert replaced; port_list is the Vec<SerialPortInfo> that
\* list_serial_ports returns.
Completed(op, port_name, r, os, replaced_buffer, replaced_port) ==
    [op |-> op, port_name |-> port_name, kind |-> r.kind, msg |-> r.msg,
     detail |-> r.detail, n |-> r.n, bytes |-> r.bytes, os |-> os,
     replaced_buffer |-> replaced_buffer, replaced_port |-> replaced_port,
     port_list |-> <<>>]
NoResult ==
    Completed("none", <<>>, Result("None", "", "", 0, <<>>), NoOsCall, {}, {})

Init ==
    /\ ports = EmptyMap
    /\ buffers = EmptyMap
    /\ ports_lock = NoThread
    /\ buffers_lock = NoThread
    /\ live = {}
    /\ opened = 0
    /\ pc = [t \in Threads |-> "idle"]
    /\ frame = [t \in Threads |-> EmptyFrame]
    /\ ret = [t \in Threads |-> NoResult]
    /\ writes = 0
    /\ pending = <<>>
    /\ written = <<>>
    /\ drained = <<>>

\* The command of thread t moves on to step l.
Goto(t, l) == pc' = [pc EXCEPT ![t] = l]

\* Thread t, idle, invokes a command with frame f, which starts at step l:
\* it has no result until it returns.
Invoke(t, f, l) ==
    /\ pc[t] = "idle"
    /\ frame' = [frame EXCEPT ![t] = f]
    /\ ret' = [ret EXCEPT ![t] = NoResult]
    /\ Goto(t, l)

\* The command of thread t returns r, os the outcome of its last OS call.
ReturnWith(t, r, os, replaced_buffer, replaced_port) ==
    /\ pc' = [pc EXCEPT ![t] = "idle"]
    /\ frame' = [frame EXCEPT ![t] = EmptyFrame]
    /\ ret' = [ret EXCEPT ![t] =
                 Completed(frame[t].op, frame[t].port_name, r, os,
                           replaced_buffer, replaced_port)]

ReturnOs(t, r, os) == ReturnWith(t, r, os, {}, {})
Return(t, r) == ReturnOs(t, r, frame[t].os)

Ok(msg, n) == Result("Ok", msg, "", n, <<>>)
OkBytes(bytes) == Result("Ok", "", "", 0, bytes)
Err(msg, detail) == Result("Err", msg, detail, 0, <<>>)

--------------------------------------------------------------------------
(* The mutexes: lock() blocks until the mutex is free; the guard is        *)
(* dropped when the function returns.                                      *)

AtBuffersLock == {"open_v_lock", "close_v_lock", "write_v_lock", "read_v_lock"}
AtPortsLock == {"open_r_lock", "close_r_lock", "write_r_lock", "read_r_lock"}

\* The step a thread is at once it holds the lock it was waiting for.
Locked(l) ==
    CASE l = "open_v_lock" -> "open_v"
      [] l = "close_v_lock" -> "close_v"
      [] l = "write_v_lock" -> "write_v"
      [] l = "read_v_lock" -> "read_v"
      [] l = "open_r_lock" -> "open_r"
      [] l = "close_r_lock" -> "close_r"
      [] l = "write_r_lock" -> "write_r"
      [] l = "read_r_lock" -> "read_r"

\* A mutex that never blocks.
MutexAlwaysFree(holder) == TRUE

\* Mutex::lock: whether the mutex can be taken now.
MutexFree(holder) == holder = NoThread

\* VIRTUAL_BUFFERS.lock()
LockBuffers(t) ==
    /\ pc[t] \in AtBuffersLock
    /\ MutexFree(buffers_lock)
    /\ buffers_lock' = t
    /\ Goto(t, Locked(pc[t]))
    /\ UNCHANGED <<ports, buffers, ports_lock, live, opened, frame, ret,
                   writes, pending, written, drained>>

\* SERIAL_PORTS.lock()
LockPorts(t) ==
    /\ pc[t] \in AtPortsLock
    /\ MutexFree(ports_lock)
    /\ ports_lock' = t
    /\ Goto(t, Locked(pc[t]))
    /\ UNCHANGED <<ports, buffers, buffers_lock, live, opened, frame, ret,
                   writes, pending, written, drained>>

--------------------------------------------------------------------------
(* open_serial_port, lib.rs 84-138. *)

\* The read timeout a port is opened with, in ms.
DefaultTimeout == 100

\* match config.parity.as_str()
ParseParity(parity) ==
    CASE parity = "None" -> "None"
      [] parity = "Odd" -> "Odd"
      [] parity = "Even" -> "Even"
      [] OTHER -> "None"

\* A match that takes an unrecognised number of stop bits for two.
ParseStopBitsTwo(stop_bits) ==
    CASE stop_bits = 1 -> "One"
      [] stop_bits = 2 -> "Two"
      [] OTHER -> "Two"

\* match config.stop_bits
ParseStopBits(stop_bits) ==
    CASE stop_bits = 1 -> "One"
      [] stop_bits = 2 -> "Two"
      [] OTHER -> "One"

\* match config.data_bits
ParseDataBits(data_bits) ==
    CASE data_bits = 5 -> "Five"
      [] data_bits = 6 -> "Six"
      [] data_bits = 7 -> "Seven"
      [] data_bits = 8 -> "Eight"
      [] OTHER -> "Eight"

\* A prefix test that ignores the case of the prefix.
IsVirtualAnyCase(port_name) ==
    \/ StartsWith(port_name, VirtualPrefix)
    \/ StartsWith(port_name, <<118, 105, 114, 116, 117, 97, 108, 45>>)

\* port_name.starts_with("VIRTUAL-")
IsVirtual(port_name) == StartsWith(port_name, VirtualPrefix)

\* A drop that releases nothing.
DropNothing(handles, dead) == handles

\* The handles still open once the values in dead have been dropped.
Drop(handles, dead) == handles \ {h.hid : h \in dead}

\* The command is invoked: the prefix test routes it.
OpenSerialPort(t, port_name, data_bits, stop_bits, parity) ==
    /\ Invoke(t, [EmptyFrame EXCEPT !.op = "open", !.port_name = port_name,
                                    !.data_bits = data_bits,
                                    !.stop_bits = stop_bits,
                                    !.parity = parity],
              IF IsVirtual(port_name) THEN "open_v_lock" ELSE "open_os")
    /\ UNCHANGED <<ports, buffers, ports_lock, buffers_lock, live, opened,
                   writes, pending, written, drained>>

\* An insert that keeps the buffer of a port that is open already.
VirtualOpenKeeps(map, port_name) ==
    IF port_name \in DOMAIN map THEN map ELSE MapInsert(map, port_name, <<>>)

\* buffers.insert(config.port_name.clone(), Vec::new())
VirtualOpenInsert(map, port_name) == MapInsert(map, port_name, <<>>)

\* Lines 88-92, under the VIRTUAL_BUFFERS lock.
OpenVirtualInsert(t) ==
    /\ pc[t] = "open_v"
    /\ buffers' = VirtualOpenInsert(buffers, frame[t].port_name)
    /\ buffers_lock' = NoThread
    /\ ReturnWith(t, Ok("Virtual port {} opened successfully", 0), NoOsCall,
                  Lookup(buffers, frame[t].port_name), {})
    /\ IF frame[t].port_name = VirtualCom1
         THEN pending' = <<>> /\ written' = <<>> /\ drained' = <<>>
         ELSE UNCHANGED <<pending, written, drained>>
    /\ UNCHANGED <<ports, ports_lock, live, opened, writes>>

\* Lines 97-130: the settings are parsed and the OS opens the port, or
\* refuses; no lock is held.
OpenOsOpen(t) ==
    /\ pc[t] = "open_os"
    /\ \E os_ok \in IF opened < MaxOpens THEN BOOLEAN ELSE {FALSE} :
         IF os_ok
           THEN /\ opened' = opened + 1
                /\ live' = live \cup {opened + 1}
                /\ frame' = [frame EXCEPT
                               ![t].port =
                                 Handle(opened + 1,
                                        ParseDataBits(frame[t].data_bits),
                                        ParseStopBits(frame[t].stop_bits),
                                        ParseParity(frame[t].parity),
                                        DefaultTimeout),
                               ![t].os = OsOutcome("open", "Ok", <<>>)]
                /\ Goto(t, "open_r_lock")
                /\ UNCHANGED ret
           ELSE /\ ReturnOs(t, Err("Failed to open port: {}", "os error"),
                            OsOutcome("open", "Err", <<>>))
                /\ UNCHANGED <<live, opened>>
    /\ UNCHANGED <<ports, buffers, ports_lock, buffers_lock, writes, pending,
                   written, drained>>

\* An insert that keeps the handle of a port that is open already.
RealOpenKeeps(map, port_name, port) ==
    IF port_name \in DOMAIN map THEN map ELSE MapInsert(map, port_name, port)

\* ports.insert(config.port_name.clone(), port)
RealOpenInsert(map, port_name, port) == MapInsert(map, port_name, port)

\* Lines 133-137, under the SERIAL_PORTS lock: the entry the insert replaces
\* is given back and dropped at the end of the statement.
OpenRealInsert(t) ==
    /\ pc[t] = "open_r"
    /\ ports' = RealOpenInsert(ports, frame[t].port_name, frame[t].port)
    /\ live' = Drop(live, Lookup(ports, frame[t].port_name))
    /\ ports_lock' = NoThread
    /\ ReturnWith(t, Ok("Port {} opened successfully", 0), frame[t].os, {},
                  Lookup(ports, frame[t].port_name))
    /\ UNCHANGED <<buffers, buffers_lock, opened, writes, pending, written,
                   drained>>

--------------------------------------------------------------------------
(* close_serial_port, lib.rs 142-161. *)

CloseSerialPort(t, port_name) ==
    /\ Invoke(t, [EmptyFrame EXCEPT !.op = "close", !.port_name = port_name],
              IF IsVirtual(port_name) THEN "close_v_lock" ELSE "close_r_lock")
    /\ UNCHANGED <<ports, buffers, ports_lock, buffers_lock, live, opened,
                   writes, pending, written, drained>>

\* buffers.remove(&port_name)
VirtualCloseRemove(map, port_name) == MapRemove(map, port_name)

\* Lines 145-149, under the VIRTUAL_BUFFERS lock.
CloseVirtualRemove(t) ==
    /\ pc[t] = "close_v"
    /\ buffers' = VirtualCloseRemove(buffers, frame[t].port_name)
    /\ buffers_lock' = NoThread
    /\ Return(t, Ok("Virtual port {} closed successfully", 0))
    /\ IF frame[t].port_name = VirtualCom1
         THEN written' = <<>> /\ drained' = <<>>
         ELSE UNCHANGED <<written, drained>>
    /\ UNCHANGED <<ports, ports_lock, live, opened, writes, pending>>

\* A close that takes every port for an open one.
RealCloseAlwaysFound(map, port_name) == TRUE

\* ports.remove(&port_name).is_some()
RealCloseFound(map, port_name) == Lookup(map, port_name) # {}

\* A close that keeps the lock when it does not find the port.
CloseRealRemoveKeepsLock(t) ==
    /\ pc[t] = "close_r"
    /\ ports' = MapRemove(ports, frame[t].port_name)
    /\ live' = Drop(live, Lookup(ports, frame[t].port_name))
    /\ IF RealCloseFound(ports, frame[t].port_name)
         THEN /\ ports_lock' = NoThread
              /\ Return(t, Ok("Port {} closed successfully", 0))
         ELSE /\ UNCHANGED ports_lock
              /\ Return(t, Err("Port {} not found", ""))
    /\ UNCHANGED <<buffers, buffers_lock, opened, writes, pending, written,
                   drained>>

\* Lines 153-160, under the SERIAL_PORTS lock: the removed handle is dropped.
CloseRealRemove(t) ==
    /\ pc[t] = "close_r"
    /\ ports' = MapRemove(ports, frame[t].port_name)
    /\ live' = Drop(live, Lookup(ports, frame[t].port_name))
    /\ ports_lock' = NoThread
    /\ IF RealCloseFound(ports, frame[t].port_name)
         THEN Return(t, Ok("Port {} closed successfully", 0))
         ELSE Return(t, Err("Port {} not found", ""))
    /\ UNCHANGED <<buffers, buffers_lock, opened, writes, pending, written,
                   drained>>

--------------------------------------------------------------------------
(* write_serial_data, lib.rs 165-221. *)

\* Values of SystemTime::now() in ms since the epoch (0: a clock set before
\* the epoch, by unwrap_or_default).
ClockSamples == {0, 10042, 2000009999}

\* A payload that is the bytes of the text whatever the hex flag.
BytesToSendText(data, is_hex) == HexOk(as_bytes(data))

\* Lines 166-171: the payload of a write.
BytesToSend(data, is_hex) ==
    IF is_hex THEN hex_string_to_bytes(data) ELSE HexOk(as_bytes(data))

\* The command is invoked.
WriteSerialData(t, port_name, data, is_hex) ==
    /\ writes < MaxWrites
    /\ writes' = writes + 1
    /\ Invoke(t, [EmptyFrame EXCEPT !.op = "write", !.port_name = port_name,
                                    !.data = data, !.is_hex = is_hex],
              "write_decode")
    /\ UNCHANGED <<ports, buffers, ports_lock, buffers_lock, live, opened,
                   pending, written, drained>>

\* Lines 166-174: the payload is decoded before any lookup, and a text that
\* does not decode ends the command; then the prefix test routes the write.
WriteDecode(t) ==
    /\ pc[t] = "write_decode"
    /\ LET decoded == BytesToSend(frame[t].data, frame[t].is_hex) IN
       CASE decoded.kind = "Ok" ->
              /\ frame' = [frame EXCEPT ![t].bytes_to_send = decoded.bytes]
              /\ Goto(t, IF IsVirtual(frame[t].port_name)
                           THEN "write_v_lock" ELSE "write_r_lock")
              /\ UNCHANGED ret
         [] decoded.kind = "Err" ->
              Return(t, Err("Invalid hex string: {}", decoded.msg))
         [] decoded.kind = "Panic" ->
              Return(t, Result("Panic", "", decoded.msg, 0, <<>>))
    /\ UNCHANGED <<ports, buffers, ports_lock, buffers_lock, live, opened,
                   writes, pending, written, drained>>

\* buffers.get_mut(&port_name) is Some
VirtualGetMut(map, port_name) == port_name \in DOMAIN map

\* ports.get_mut(&port_name) is Some
RealGetMut(map, port_name) == port_name \in DOMAIN map

\* Lines 192-196: the clock is read by a write to the random port, and by
\* no other write.
Now(port_name) ==
    IF port_name = VirtualCom3
      THEN {OsOutcome("now", "Ok", <<timestamp>>) : timestamp \in ClockSamples}
      ELSE {NoOsCall}
Timestamp(os) == IF os.call = "now" THEN os.data[1] ELSE 0

\* A random port that appends the payload after "Random-".
VirtualWriteRandomPayload(buffer, port_name, data, bytes_to_send, timestamp) ==
    CASE port_name = VirtualCom1 -> buffer \o bytes_to_send
      [] port_name = VirtualCom2 -> buffer \o as_bytes(ReceivedPrefix \o data)
      [] port_name = VirtualCom3 -> buffer \o as_bytes(RandomPrefix) \o bytes_to_send
      [] OTHER -> buffer

\* A write that echoes on every port that is not listed.
VirtualWriteEchoUnlisted(buffer, port_name, data, bytes_to_send, timestamp) ==
    CASE port_name = VirtualCom2 -> buffer \o as_bytes(ReceivedPrefix \o data)
      [] port_name = VirtualCom3 ->
           buffer \o as_bytes(RandomPrefix \o to_string(timestamp % 10000))
      [] OTHER -> buffer \o bytes_to_send

\* A reply port that embeds the decoded payload, not the text.
VirtualWriteReplyDecoded(buffer, port_name, data, bytes_to_send, timestamp) ==
    CASE port_name = VirtualCom1 -> buffer \o bytes_to_send
      [] port_name = VirtualCom2 -> buffer \o ReceivedPrefix \o bytes_to_send
      [] port_name = VirtualCom3 ->
           buffer \o as_bytes(RandomPrefix \o to_string(timestamp % 10000))
      [] OTHER -> buffer

\* Lines 180-201: what a write leaves in the buffer of an open virtual port.
VirtualWrite(buffer, port_name, data, bytes_to_send, timestamp) ==
    CASE port_name = VirtualCom1 -> buffer \o bytes_to_send
      [] port_name = VirtualCom2 -> buffer \o as_bytes(ReceivedPrefix \o data)
      [] port_name = VirtualCom3 ->
           buffer \o as_bytes(RandomPrefix \o to_string(timestamp % 10000))
      [] OTHER -> buffer

\* Lines 175-206, under the VIRTUAL_BUFFERS lock.
WriteVirtualAppend(t) ==
    /\ pc[t] = "write_v"
    /\ buffers_lock' = NoThread
    /\ IF VirtualGetMut(buffers, frame[t].port_name)
         THEN \E os \in Now(frame[t].port_name) :
                /\ buffers' = [buffers EXCEPT ![frame[t].port_name] =
                                 VirtualWrite(@, frame[t].port_name,
                                              frame[t].data,
                                              frame[t].bytes_to_send,
                                              Timestamp(os))]
                /\ ReturnOs(t, Ok("Sent {} bytes", Len(frame[t].bytes_to_send)),
                            os)
         ELSE /\ Return(t, Err("Virtual port {} not found", ""))
              /\ UNCHANGED buffers
    /\ IF frame[t].port_name = VirtualCom1 /\ ret'[t].kind = "Ok"
         THEN /\ pending' = pending \o frame[t].bytes_to_send
              /\ written' = written \o frame[t].bytes_to_send
         ELSE UNCHANGED <<pending, written>>
    /\ UNCHANGED <<ports, ports_lock, live, opened, writes, drained>>

\* A write that goes on to the device without the lookup.
WriteRealNoLookup(t) ==
    /\ pc[t] = "write_r"
    /\ Goto(t, "write_io")
    /\ UNCHANGED <<ports, buffers, ports_lock, buffers_lock, live, opened,
                   frame, ret, writes, pending, written, drained>>

\* Lines 210-215, under the SERIAL_PORTS lock.
WriteRealLookup(t) ==
    /\ pc[t] = "write_r"
    /\ IF RealGetMut(ports, frame[t].port_name)
         THEN /\ frame' = [frame EXCEPT
                             ![t].port = ports[frame[t].port_name]]
              /\ Goto(t, "write_io")
              /\ UNCHANGED <<ports_lock, ret>>
         ELSE /\ ports_lock' = NoThread
              /\ Return(t, Err("Port {} not found", ""))
    /\ UNCHANGED <<ports, buffers, buffers_lock, live, opened, writes,
                   pending, written, drained>>

\* A write that closes the port when the device refuses the bytes.
WriteRealWriteAllOrClose(t) ==
    /\ pc[t] = "write_io"
    /\ ports_lock' = NoThread
    /\ \E os_ok \in BOOLEAN :
         IF os_ok
           THEN /\ ReturnOs(t, Ok("Sent {} bytes", Len(frame[t].bytes_to_send)),
                            OsOutcome("write_all", "Ok", <<>>))
                /\ UNCHANGED <<ports, live>>
           ELSE /\ ReturnOs(t, Err("Failed to write data: {}", "os error"),
                            OsOutcome("write_all", "Err", <<>>))
                /\ ports' = MapRemove(ports, frame[t].port_name)
                /\ live' = Drop(live, Lookup(ports, frame[t].port_name))
    /\ UNCHANGED <<buffers, buffers_lock, opened, writes, pending, written,
                   drained>>

\* Lines 217-220: port.write_all(&bytes_to_send) returns, the lock still held.
WriteRealWriteAll(t) ==
    /\ pc[t] = "write_io"
    /\ ports_lock' = NoThread
    /\ \E os_ok \in BOOLEAN :
         IF os_ok
           THEN ReturnOs(t, Ok("Sent {} bytes", Len(frame[t].bytes_to_send)),
                         OsOutcome("write_all", "Ok", <<>>))
           ELSE ReturnOs(t, Err("Failed to write data: {}", "os error"),
                         OsOutcome("write_all", "Err", <<>>))
    /\ UNCHANGED <<ports, buffers, buffers_lock, live, opened, writes,
                   pending, written, drained>>

--------------------------------------------------------------------------
(* read_serial_data, lib.rs 225-268. *)

\* The size of the scratch buffer of a real read.
ScratchLen == 1024

\* What the device has ready when a real read is made.
DeviceData == {<<>>, <<1, 2, 3>>, [i \in 1..(ScratchLen + 1) |-> 9]}

\* The first n bytes of a sequence, all of it when it is shorter.
Take(bytes, n) == SubSeq(bytes, 1, IF Len(bytes) < n THEN Len(bytes) ELSE n)

\* The outcomes of port.read(&mut buffer) on a buffer of len bytes: the OS
\* puts in what is ready, as far as it fits, or the read times out, or it
\* fails otherwise.
OsRead(len) ==
    {OsOutcome("read", "Ok", Take(d, len)) : d \in DeviceData}
        \cup {OsOutcome("read", "TimedOut", <<>>),
              OsOutcome("read", "BrokenPipe", <<>>)}

ReadSerialData(t, port_name, timeout_ms) ==
    /\ Invoke(t, [EmptyFrame EXCEPT !.op = "read", !.port_name = port_name,
                                    !.timeout_ms = timeout_ms],
              IF IsVirtual(port_name) THEN "read_v_lock" ELSE "read_r_lock")
    /\ UNCHANGED <<ports, buffers, ports_lock, buffers_lock, live, opened,
                   writes, pending, written, drained>>

\* A read that returns the first byte only ...
VirtualReadDataFirst(buffer) == Take(buffer, 1)
\* ... and a read that leaves the buffer as it is.
VirtualReadRestKeeps(buffer) == buffer

\* Line 237, buffer.clone(): what a virtual read returns ...
VirtualReadData(buffer) == buffer
\* ... and line 238, buffer.clear(): what it leaves in the buffer.
VirtualReadRest(buffer) == <<>>

\* Lines 228-237, under the VIRTUAL_BUFFERS lock: the lookup, the early
\* return on an empty buffer, and the copy into the local data.
ReadVirtualClone(t) ==
    /\ pc[t] = "read_v"
    /\ IF VirtualGetMut(buffers, frame[t].port_name)
         THEN IF buffers[frame[t].port_name] = <<>>
                THEN /\ buffers_lock' = NoThread
                     /\ Return(t, OkBytes(<<>>))
                ELSE /\ frame' = [frame EXCEPT
                                    ![t].data =
                                      VirtualReadData(buffers[frame[t].port_name])]
                     /\ Goto(t, "read_v_clear")
                     /\ UNCHANGED <<buffers_lock, ret>>
         ELSE /\ buffers_lock' = NoThread
              /\ Return(t, Err("Virtual port {} not found", ""))
    /\ UNCHANGED <<ports, buffers, ports_lock, live, opened, writes, pending,
                   written, drained>>

\* Lines 238-239, still under the lock: the buffer is cleared and the copy
\* returned.
ReadVirtualClear(t) ==
    /\ pc[t] = "read_v_clear"
    /\ buffers' = [buffers EXCEPT ![frame[t].port_name] = VirtualReadRest(@)]
    /\ buffers_lock' = NoThread
    /\ Return(t, OkBytes(frame[t].data))
    /\ IF frame[t].port_name = VirtualCom1
         THEN /\ pending' = <<>>
              /\ drained' = drained \o frame[t].data
         ELSE UNCHANGED <<pending, drained>>
    /\ UNCHANGED <<ports, ports_lock, live, opened, writes, written>>

\* Lines 246-251, under the SERIAL_PORTS lock.
ReadRealLookup(t) ==
    /\ pc[t] = "read_r"
    /\ IF RealGetMut(ports, frame[t].port_name)
         THEN /\ frame' = [frame EXCEPT
                             ![t].port = ports[frame[t].port_name]]
              /\ Goto(t, "read_timeout")
              /\ UNCHANGED <<ports_lock, ret>>
         ELSE /\ ports_lock' = NoThread
              /\ Return(t, Err("Port {} not found", ""))
    /\ UNCHANGED <<ports, buffers, buffers_lock, live, opened, writes,
                   pending, written, drained>>

\* Lines 254-255: port.set_timeout(..) returns.
ReadRealSetTimeout(t) ==
    /\ pc[t] = "read_timeout"
    /\ \E os_ok \in BOOLEAN :
         IF os_ok
           THEN /\ ports' = [ports EXCEPT ![frame[t].port_name].timeout =
                               frame[t].timeout_ms]
                /\ frame' = [frame EXCEPT
                               ![t].os = OsOutcome("set_timeout", "Ok", <<>>)]
                /\ Goto(t, "read_io")
                /\ UNCHANGED <<ports_lock, ret>>
           ELSE /\ ports_lock' = NoThread
                /\ ReturnOs(t, Err("Failed to set timeout: {}", "os error"),
                            OsOutcome("set_timeout", "Err", <<>>))
                /\ UNCHANGED ports
    /\ UNCHANGED <<buffers, buffers_lock, live, opened, writes, pending,
                   written, drained>>

\* Lines 257-262: the scratch buffer once the OS has put n bytes at its
\* front, truncated to n.
ReadOk(scratch, data) ==
    LET n == Len(data)
        filled == [i \in 1..Len(scratch) |->
                     IF i <= n THEN data[i] ELSE scratch[i]]
    IN  SubSeq(filled, 1, n)

\* A read that reports a timeout as an error.
ReadResultTimeoutErr(os) ==
    CASE os.kind = "Ok" -> OkBytes(ReadOk([i \in 1..ScratchLen |-> 0], os.data))
      [] OTHER -> Err("Failed to read data: {}", "os error")

\* Lines 258-267: what the command returns for an outcome of the read.
ReadResult(os) ==
    CASE os.kind = "Ok" -> OkBytes(ReadOk([i \in 1..ScratchLen |-> 0], os.data))
      [] os.kind = "TimedOut" -> OkBytes(<<>>)
      [] OTHER -> Err("Failed to read data: {}", "os error")

\* Lines 257-267: port.read(&mut buffer) returns, the lock still held.
ReadRealRead(t) ==
    /\ pc[t] = "read_io"
    /\ ports_lock' = NoThread
    /\ \E os \in OsRead(ScratchLen) : ReturnOs(t, ReadResult(os), os)
    /\ UNCHANGED <<ports, buffers, buffers_lock, live, opened, writes,
                   pending, written, drained>>

--------------------------------------------------------------------------
(* list_serial_ports, lib.rs 35-80. *)

\* Lines 17-21: struct SerialPortInfo; port_type is a text with the argument
\* of its format!, if any.
SerialPortInfo(port_name, text, arg) ==
    [port_name |-> port_name, port_type |-> [text |-> text, arg |-> arg]]

\* What serialport::available_ports() reports of a port: its name, the kind
\* of port, and for a USB port the product and the manufacturer, each an
\* Option (a set with at most one element).
OsPort(port_name, kind, product, manufacturer) ==
    [port_name |-> port_name, kind |-> kind, product |-> product,
     manufacturer |-> manufacturer]

\* "COM3" .. "COM8"
ComN(digit) == <<67, 79, 77, digit>>

\* Outcomes of serialport::available_ports(): an error, no port, and ports
\* of every type.
Enumerations ==
    {OsOutcome("available_ports", "Err", <<>>),
     OsOutcome("available_ports", "Ok", <<>>),
     OsOutcome("available_ports", "Ok",
               <<OsPort(ComN(51), "UsbPort", {"FT232R"}, {"FTDI"}),
                 OsPort(ComN(52), "UsbPort", {}, {"FTDI"}),
                 OsPort(ComN(53), "UsbPort", {}, {})>>),
     OsOutcome("available_ports", "Ok",
               <<OsPort(ComN(56), "Unknown", {}, {}),
                 OsPort(ComN(55), "BluetoothPort", {}, {}),
                 OsPort(ComN(54), "PciPort", {}, {})>>)}

\* Lines 41-61: the entry of an enumerated port.
RealEntry(p) ==
    CASE p.kind = "UsbPort" ->
           IF p.product # {}
             THEN SerialPortInfo(p.port_name, "USB: {}",
                                 CHOOSE x \in p.product : TRUE)
             ELSE IF p.manufacturer # {}
                    THEN SerialPortInfo(p.port_name, "USB: {}",
                                        CHOOSE x \in p.manufacturer : TRUE)
                    ELSE SerialPortInfo(p.port_name, "USB Device", "")
      [] p.kind = "PciPort" -> SerialPortInfo(p.port_name, "PCI Port", "")
      [] p.kind = "BluetoothPort" ->
           SerialPortInfo(p.port_name, "Bluetooth", "")
      [] p.kind = "Unknown" -> SerialPortInfo(p.port_name, "Unknown", "")

\* Lines 66-77: the three entries pushed after the enumerated ports.
VirtualEntries ==
    <<SerialPortInfo(VirtualCom1, "Virtual Port (Echo)", ""),
      SerialPortInfo(VirtualCom2, "Virtual Port (Reply)", ""),
      SerialPortInfo(VirtualCom3, "Virtual Port (Random)", "")>>

\* A list that is empty when the enumeration fails.
PortListOrNothing(os) ==
    IF os.kind = "Ok"
      THEN [i \in 1..Len(os.data) |-> RealEntry(os.data[i])] \o VirtualEntries
      ELSE <<>>

\* Lines 36-77: port_list for an outcome os of the enumeration.
PortList(os) ==
    (IF os.kind = "Ok"
       THEN [i \in 1..Len(os.data) |-> RealEntry(os.data[i])]
       ELSE <<>>) \o VirtualEntries

\* The command is invoked: it takes no argument and no lock.
ListSerialPorts(t) ==
    /\ Invoke(t, [EmptyFrame EXCEPT !.op = "list"], "list_enum")
    /\ UNCHANGED <<ports, buffers, ports_lock, buffers_lock, live, opened,
                   writes, pending, written, drained>>

\* Lines 36-79: the enumeration returns and the list is built and returned.
ListAvailablePorts(t) ==
    /\ pc[t] = "list_enum"
    /\ \E os \in Enumerations :
         /\ pc' = [pc EXCEPT ![t] = "idle"]
         /\ frame' = [frame EXCEPT ![t] = EmptyFrame]
         /\ ret' = [ret EXCEPT ![t] =
                      [Completed("list", <<>>, OkBytes(<<>>), os, {}, {})
                         EXCEPT !.port_list = PortList(os)]]
    /\ UNCHANGED <<ports, buffers, ports_lock, buffers_lock, live, opened,
                   writes, pending, written, drained>>

--------------------------------------------------------------------------
(* The callers and what they pass. *)

\* "COM1", and "virtual-com1": the prefix test is case-sensitive.
Com1 == <<67, 79, 77, 49>>
LowerVirtualCom1 == <<118, 105, 114, 116, 117, 97, 108, 45, 99, 111, 109, 49>>
\* "VIRTUAL-X": prefixed, but none of the three listed ports.
VirtualX == <<86, 73, 82, 84, 85, 65, 76, 45, 88>>

\* "hi" and "AB"
SampleTexts == {<<104, 105>>, <<65, 66>>}

\* Settings a caller passes: recognised ones and unrecognised ones.
SampleConfigs ==
    {[data_bits |-> 8, stop_bits |-> 1, parity |-> "None"],
     [data_bits |-> 9, stop_bits |-> 0, parity |-> "Mark"]}

SampleTimeouts == {50}

\* Thread t invokes a command, drawn from the given names, texts and settings.
Call(t, names, texts, configs) ==
    \/ \E port_name \in names, config \in configs :
         OpenSerialPort(t, port_name, config.data_bits, config.stop_bits,
                        config.parity)
    \/ \E port_name \in names : CloseSerialPort(t, port_name)
    \/ \E port_name \in names, data \in texts, is_hex \in BOOLEAN :
         WriteSerialData(t, port_name, data, is_hex)
    \/ \E port_name \in names, timeout_ms \in SampleTimeouts :
         ReadSerialData(t, port_name, timeout_ms)

\* A step of a command of thread t on a virtual port.
VirtualStep(t) ==
    \/ WriteDecode(t)
    \/ LockBuffers(t)
    \/ OpenVirtualInsert(t)
    \/ CloseVirtualRemove(t)
    \/ WriteVirtualAppend(t)
    \/ ReadVirtualClone(t)
    \/ ReadVirtualClear(t)

\* A step of a command of thread t on a real port.
RealStep(t) ==
    \/ WriteDecode(t)
    \/ LockPorts(t)
    \/ OpenOsOpen(t)
    \/ OpenRealInsert(t)
    \/ CloseRealRemove(t)
    \/ WriteRealLookup(t)
    \/ WriteRealWriteAll(t)
    \/ ReadRealLookup(t)
    \/ ReadRealSetTimeout(t)
    \/ ReadRealRead(t)

OneConfig == {[data_bits |-> 8, stop_bits |-> 1, parity |-> "None"]}

\* One caller at a time: each command runs to its end before the next.
Next ==
    \/ Call("t1", {Com1, VirtualCom1, VirtualCom2}, SampleTexts, SampleConfigs)
    \/ VirtualStep("t1")
    \/ LockPorts("t1")
    \/ OpenOsOpen("t1")
    \/ OpenRealInsert("t1")
    \/ CloseRealRemove("t1")
    \/ WriteRealLookup("t1")
    \/ WriteRealWriteAll("t1")
    \/ ReadRealLookup("t1")
    \/ ReadRealSetTimeout("t1")
    \/ ReadRealRead("t1")
Spec == Init /\ [][Next]_vars

\* Concurrent callers of the real port: the steps of the commands of two
\* threads interleave.
NextConcReal ==
    \E t \in Threads : Call(t, {Com1}, {<<65, 66>>}, OneConfig) \/ RealStep(t)
SpecConcReal == Init /\ [][NextConcReal]_vars

\* Concurrent callers of the echo port.
NextConcVirtual ==
    \E t \in Threads :
        Call(t, {VirtualCom1}, {<<65, 66>>}, OneConfig) \/ VirtualStep(t)
SpecConcVirtual == Init /\ [][NextConcVirtual]_vars

\* Every text of at most MaxHexLen characters over: space, '+', '-', '1',
\* 'A', 'B', 'C', 'f', 'g', e-acute (2 bytes), the euro sign (3 bytes).
HexChars == {32, 43, 45, 49, 65, 66, 67, 102, 103, 233, 8364}
HexTexts == UNION {[1..k -> HexChars] : k \in 0..MaxHexLen}

\* The first write of a run, of every such text, to a real and to a virtual
\* name, the echo port opened before or not.
NextHex ==
    \/ /\ writes = 0
       /\ VirtualCom1 \notin DOMAIN buffers
       /\ OpenSerialPort("t1", VirtualCom1, 8, 1, "None")
    \/ OpenVirtualInsert("t1")
    \/ /\ writes = 0
       /\ \E port_name \in {Com1, VirtualCom1}, data \in HexTexts,
             is_hex \in BOOLEAN :
            WriteSerialData("t1", port_name, data, is_hex)
    \/ WriteDecode("t1")
    \/ LockBuffers("t1")
    \/ LockPorts("t1")
    \/ WriteVirtualAppend("t1")
    \/ WriteRealLookup("t1")
SpecHex == Init /\ [][NextHex]_vars

\* One caller that lists the ports between commands on a real and on a
\* virtual port.
NextList ==
    \/ ListSerialPorts("t1")
    \/ ListAvailablePorts("t1")
    \/ Call("t1", {Com1, VirtualCom1}, {<<65, 66>>}, OneConfig)
    \/ VirtualStep("t1")
    \/ LockPorts("t1")
    \/ OpenOsOpen("t1")
    \/ OpenRealInsert("t1")
    \/ CloseRealRemove("t1")
    \/ WriteRealLookup("t1")
    \/ WriteRealWriteAll("t1")
    \/ ReadRealLookup("t1")
    \/ ReadRealSetTimeout("t1")
    \/ ReadRealRead("t1")
SpecList == Init /\ [][NextList]_vars

\* Settings over the recognised values and values around them; data_bits and
\* stop_bits are u8, parity is any string.
ConfigSpace ==
    [data_bits : {0, 4, 5, 6, 7, 8, 9, 255},
     stop_bits : {0, 1, 2, 3, 255},
     parity : {"None", "Odd", "Even", "none", "ODD", "Mark", ""}]

\* One caller that opens and closes the real port with every such setting.
NextConfig ==
    \/ \E config \in ConfigSpace :
         OpenSerialPort("t1", Com1, config.data_bits, config.stop_bits,
                        config.parity)
    \/ CloseSerialPort("t1", Com1)
    \/ LockPorts("t1")
    \/ OpenOsOpen("t1")
    \/ OpenRealInsert("t1")
    \/ CloseRealRemove("t1")
SpecConfig == Init /\ [][NextConfig]_vars

\* Concurrent callers of both registries, under fair scheduling: a step that
\* stays possible is taken, a caller that finds the mutex free again and again
\* gets it, and every OS call returns.  One caller runs every command, the
\* other reads and closes.
FairCall ==
    \E port_name \in {Com1, VirtualCom2} :
        \/ OpenSerialPort("t1", port_name, 8, 1, "None")
        \/ WriteSerialData("t1", port_name, <<65>>, FALSE)
        \/ \E t \in Threads :
             \/ CloseSerialPort(t, port_name)
             \/ ReadSerialData(t, port_name, 50)
NextFair == FairCall \/ \E t \in Threads : VirtualStep(t) \/ RealStep(t)
\* The steps of the commands of thread t that take no lock, and the ones
\* that take one.
Work(t) ==
    \/ WriteDecode(t)
    \/ OpenVirtualInsert(t)
    \/ CloseVirtualRemove(t)
    \/ WriteVirtualAppend(t)
    \/ ReadVirtualClone(t)
    \/ ReadVirtualClear(t)
    \/ OpenOsOpen(t)
    \/ OpenRealInsert(t)
    \/ CloseRealRemove(t)
    \/ WriteRealLookup(t)
    \/ WriteRealWriteAll(t)
    \/ ReadRealLookup(t)
    \/ ReadRealSetTimeout(t)
    \/ ReadRealRead(t)
Lock(t) == LockBuffers(t) \/ LockPorts(t)
Fairness == \A t \in Threads : WF_vars(Work(t)) /\ SF_vars(Lock(t))
SpecFair == Init /\ [][NextFair]_vars /\ Fairness

\* Concurrent callers of the random port.
NextRandom ==
    \E t \in Threads :
        Call(t, {VirtualCom3}, {<<65, 66>>}, OneConfig) \/ VirtualStep(t)
SpecRandom == Init /\ [][NextRandom]_vars

\* One caller and the names off the list: the random port, a prefixed name
\* that is none of the three listed ports, and a name that has the prefix in
\* lower case only.
OtherNames == {VirtualCom3, VirtualX, LowerVirtualCom1}
NextNames ==
    \/ Call("t1", OtherNames, SampleTexts, OneConfig)
    \/ VirtualStep("t1")
    \/ LockPorts("t1")
    \/ OpenOsOpen("t1")
    \/ OpenRealInsert("t1")
    \/ CloseRealRemove("t1")
    \/ WriteRealLookup("t1")
    \/ WriteRealWriteAll("t1")
    \/ ReadRealLookup("t1")
    \/ ReadRealSetTimeout("t1")
    \/ ReadRealRead("t1")
SpecNames == Init /\ [][NextNames]_vars

\* One caller that opens and writes: every kind of name, texts of one and of
\* two bytes a character, as text and as hex.
AllNames == {VirtualCom1, VirtualCom2, VirtualCom3, VirtualX, Com1}
WrittenTexts == {<<65, 66>>, <<233, 49>>, <<65, 32, 66, 49, 50>>}
NextWrites ==
    \/ \E port_name \in AllNames :
         OpenSerialPort("t1", port_name, 8, 1, "None")
    \/ \E port_name \in AllNames, data \in WrittenTexts, is_hex \in BOOLEAN :
         WriteSerialData("t1", port_name, data, is_hex)
    \/ WriteDecode("t1")
    \/ LockBuffers("t1")
    \/ LockPorts("t1")
    \/ OpenVirtualInsert("t1")
    \/ OpenOsOpen("t1")
    \/ OpenRealInsert("t1")
    \/ WriteVirtualAppend("t1")
    \/ WriteRealLookup("t1")
    \/ WriteRealWriteAll("t1")
SpecWrites == Init /\ [][NextWrites]_vars

--------------------------------------------------------------------------
(* The vocabulary of the properties. *)

\* The error of a command on a port that has no entry.
IsNotFound(r) ==
    /\ r.kind = "Err"
    /\ r.msg \in {"Port {} not found", "Virtual port {} not found"}

\* The error of a write whose hex text does not decode.
IsInvalidInput(r) == r.kind = "Err" /\ r.msg = "Invalid hex string: {}"

\* No registry has an entry for the name.
NotOpen(port_name) ==
    port_name \notin DOMAIN ports /\ port_name \notin DOMAIN buffers

\* This step ends the command op of thread t.
Returns(t, op) == frame[t].op = op /\ pc[t] # "idle" /\ pc'[t] = "idle"

\* The map is as before but for the entry of the name.
OthersUnchanged(before, after, port_name) ==
    /\ (DOMAIN after) \ {port_name} = (DOMAIN before) \ {port_name}
    /\ \A k \in (DOMAIN before) \ {port_name} : after[k] = before[k]

--------------------------------------------------------------------------
(* Properties of one caller (Spec). *)

\* C1: a read of the open echo port returns the payloads of the successful
\* writes since the last open or read, concatenated in write order, and
\* leaves the buffer empty; so a read right after a read returns nothing.
EchoFifoRoundTrip ==
    [][(/\ Returns("t1", "read")
        /\ frame["t1"].port_name = VirtualCom1
        /\ VirtualCom1 \in DOMAIN buffers)
       => /\ ret'["t1"].kind = "Ok"
          /\ ret'["t1"].bytes = pending
          /\ buffers'[VirtualCom1] = <<>>
          /\ pending' = <<>>]_vars

\* C1 witness: "AB" written as text, then as hex, then read in one piece.
EchoFifoWitness ==
    /\ ret["t1"].op = "read"
    /\ ret["t1"].port_name = VirtualCom1
    /\ ret["t1"].bytes = <<65, 66, 171>>
    /\ buffers[VirtualCom1] = <<>>

\* C2 as stated: a write to a name that is not open fails with NotFound,
\* whatever the text and the hex flag.
WriteUnopenedAlwaysNotFound ==
    [][(Returns("t1", "write") /\ NotOpen(frame["t1"].port_name))
       => IsNotFound(ret'["t1"])]_vars

\* C2 amended: a write to a name that is not open never succeeds; it fails
\* with NotFound whenever the payload is accepted (the hex flag off, or a
\* text that decodes), and a text that does not decode is refused before the
\* lookup.
WriteUnopenedFails ==
    [][(Returns("t1", "write") /\ NotOpen(frame["t1"].port_name))
       => /\ ret'["t1"].kind # "Ok"
          /\ IF BytesToSend(frame["t1"].data, frame["t1"].is_hex).kind = "Ok"
               THEN IsNotFound(ret'["t1"])
               ELSE /\ frame["t1"].is_hex
                    /\ IsInvalidInput(ret'["t1"]) \/ ret'["t1"].kind = "Panic"]_vars

\* C2 witness: a hex write of "AB" to COM1, not open, was refused.
WriteUnopenedWitness ==
    /\ ret["t1"].op = "write"
    /\ ret["t1"].port_name = Com1
    /\ IsNotFound(ret["t1"])
    /\ NotOpen(Com1)

\* C3: closing a virtual name succeeds and leaves it without a buffer, open
\* or not; closing a real name succeeds and removes the entry when it is
\* open, and fails with NotFound, the registry as it was, when it is not.
CloseAsymmetry ==
    [][Returns("t1", "close")
       => LET name == frame["t1"].port_name IN
          IF IsVirtual(name)
            THEN /\ ret'["t1"].kind = "Ok"
                 /\ name \notin DOMAIN buffers'
                 /\ OthersUnchanged(buffers, buffers', name)
                 /\ ports' = ports
            ELSE /\ buffers' = buffers
                 /\ IF name \in DOMAIN ports
                      THEN /\ ret'["t1"].kind = "Ok"
                           /\ name \notin DOMAIN ports'
                           /\ OthersUnchanged(ports, ports', name)
                      ELSE /\ IsNotFound(ret'["t1"])
                           /\ ports' = ports]_vars

\* C3 witness: COM1, not open, was closed: NotFound.
CloseAsymmetryWitness ==
    /\ ret["t1"].op = "close"
    /\ ret["t1"].port_name = Com1
    /\ IsNotFound(ret["t1"])
    /\ VirtualCom1 \in DOMAIN buffers

\* C4: an open of a virtual name leaves it with an empty buffer whatever
\* was there, the other buffers as they were; a second open in a row changes
\* nothing; a read of the empty buffer returns nothing.
VirtualOpenResets ==
    [][/\ (Returns("t1", "open") /\ IsVirtual(frame["t1"].port_name))
          => LET name == frame["t1"].port_name IN
             /\ ret'["t1"].kind = "Ok"
             /\ name \in DOMAIN buffers'
             /\ buffers'[name] = <<>>
             /\ OthersUnchanged(buffers, buffers', name)
             /\ (name \in DOMAIN buffers /\ buffers[name] = <<>>)
                  => buffers' = buffers
       /\ (/\ Returns("t1", "read")
           /\ frame["t1"].port_name \in DOMAIN buffers
           /\ buffers[frame["t1"].port_name] = <<>>)
          => /\ ret'["t1"].kind = "Ok"
             /\ ret'["t1"].bytes = <<>>]_vars

\* C4 witness: the echo port was opened again over the unread bytes "AB".
VirtualOpenWitness ==
    /\ ret["t1"].op = "open"
    /\ ret["t1"].port_name = VirtualCom1
    /\ ret["t1"].replaced_buffer = {<<65, 66>>}
    /\ buffers[VirtualCom1] = <<>>

\* C5: a successful write of text t to the reply port appends "Received: "
\* and the bytes of t as submitted, also with the hex flag set; "hi" written
\* to the empty buffer and read gives "Received: hi".
ReplyPort ==
    [][/\ (/\ Returns("t1", "write")
           /\ frame["t1"].port_name = VirtualCom2
           /\ ret'["t1"].kind = "Ok")
          => /\ buffers'[VirtualCom2] =
                  buffers[VirtualCom2]
                      \o <<82, 101, 99, 101, 105, 118, 101, 100, 58, 32>>
                      \o as_bytes(frame["t1"].data)
             /\ (frame["t1"].data = <<104, 105>> /\ buffers[VirtualCom2] = <<>>)
                  => buffers'[VirtualCom2] =
                       <<82, 101, 99, 101, 105, 118, 101, 100, 58, 32, 104, 105>>
       /\ (/\ Returns("t1", "read")
           /\ frame["t1"].port_name = VirtualCom2
           /\ VirtualCom2 \in DOMAIN buffers)
          => ret'["t1"].bytes = buffers[VirtualCom2]]_vars

\* C5 witness: the read after the write of "hi" returned "Received: hi".
ReplyPortWitness ==
    /\ ret["t1"].op = "read"
    /\ ret["t1"].port_name = VirtualCom2
    /\ ret["t1"].bytes =
         <<82, 101, 99, 101, 105, 118, 101, 100, 58, 32, 104, 105>>

\* C6: a real open whose OS open fails returns an error, the registry as
\* it was; one whose OS open succeeds returns success with the name mapped
\* to the new handle, in one entry, the other entries as they were, also
\* when the name was open already.
RealOpen ==
    [][/\ (/\ pc'["t1"] # "idle"
           /\ frame'["t1"].op = "open"
           /\ ~IsVirtual(frame'["t1"].port_name))
          => ports' = ports
       /\ (Returns("t1", "open") /\ ~IsVirtual(frame["t1"].port_name))
          => LET name == frame["t1"].port_name IN
             IF ret'["t1"].os.kind = "Ok"
               THEN /\ ret'["t1"].kind = "Ok"
                    /\ DOMAIN ports' = DOMAIN ports \cup {name}
                    /\ ports'[name] = frame["t1"].port
                    /\ \A k \in DOMAIN ports :
                         ports[k].hid # frame["t1"].port.hid
                    /\ OthersUnchanged(ports, ports', name)
               ELSE /\ ret'["t1"].kind = "Err"
                    /\ ports' = ports]_vars

\* C6 witness: COM1 was opened while open: its entry holds the second
\* handle, the first one was replaced.
RealOpenWitness ==
    /\ ret["t1"].op = "open"
    /\ ret["t1"].port_name = Com1
    /\ ret["t1"].kind = "Ok"
    /\ ret["t1"].replaced_port # {}
    /\ DOMAIN ports = {Com1}
    /\ ports[Com1].hid = 2

\* C7: a real read of a name that is not open returns NotFound; of an open
\* one, an error when the timeout cannot be set, success with no bytes when
\* the OS read times out, success with the n bytes the OS read gave
\* (0 <= n <= 1024) when it succeeds, an error when it fails otherwise.
RealRead ==
    [][(Returns("t1", "read") /\ ~IsVirtual(frame["t1"].port_name))
       => LET r == ret'["t1"] IN
          IF frame["t1"].port_name \notin DOMAIN ports
            THEN IsNotFound(r)
            ELSE CASE r.os.call = "set_timeout" ->
                        r.os.kind = "Err" /\ r.kind = "Err"
                   [] r.os.call = "read" /\ r.os.kind = "TimedOut" ->
                        r.kind = "Ok" /\ r.bytes = <<>>
                   [] r.os.call = "read" /\ r.os.kind = "Ok" ->
                        /\ r.kind = "Ok"
                        /\ r.bytes = r.os.data
                        /\ Len(r.bytes) <= 1024
                   [] r.os.call = "read"
                        /\ r.os.kind \notin {"TimedOut", "Ok"} ->
                        r.kind = "Err"
                   [] OTHER -> FALSE]_vars

\* C7 witness: a read of COM1, open, timed out and returned no bytes.
RealReadWitness ==
    /\ ret["t1"].op = "read"
    /\ ret["t1"].port_name = Com1
    /\ ret["t1"].os.kind = "TimedOut"
    /\ ret["t1"].kind = "Ok"
    /\ ret["t1"].bytes = <<>>

--------------------------------------------------------------------------
(* Properties of concurrent callers (SpecConcReal, SpecConcVirtual). *)

\* Thread t has an OS call on the handle of its port in progress or ahead.
InIo(t) == pc[t] \in {"write_io", "read_timeout", "read_io"}

\* C8: at most one caller at a time is reading or writing a given open real
\* port, and while it does the registry holds the handle it uses, which has
\* not been released: no close removed it and no open replaced it.
ExclusiveAccess ==
    /\ \A t, u \in Threads :
         (InIo(t) /\ InIo(u) /\ frame[t].port_name = frame[u].port_name)
            => t = u
    /\ \A t \in Threads :
         InIo(t) => /\ frame[t].port_name \in DOMAIN ports
                    /\ ports[frame[t].port_name].hid = frame[t].port.hid
                    /\ frame[t].port.hid \in live

\* C8 witness: one caller is in the OS read of COM1's second handle while
\* the other waits to close COM1.
ExclusiveAccessWitness ==
    /\ pc["t1"] = "read_io"
    /\ frame["t1"].port.hid = 2
    /\ pc["t2"] = "close_r_lock"
    /\ ports_lock = "t1"

\* C9: on the echo port, since its last open, the results of the reads in
\* the order they were made followed by what the buffer holds are the
\* payloads of the successful writes in the order they took effect: no byte
\* is lost and none is returned twice.
DrainAtomic ==
    VirtualCom1 \in DOMAIN buffers
        => drained \o buffers[VirtualCom1] = written

\* C9 witness: a read has returned the first payload, the second is in the
\* buffer, copied by a caller that has not cleared the buffer yet, while the
\* other caller waits for the lock to read.
DrainAtomicWitness ==
    /\ VirtualCom1 \in DOMAIN buffers
    /\ drained = <<65, 66>>
    /\ buffers[VirtualCom1] = <<171>>
    /\ pc["t1"] = "read_v_clear"
    /\ pc["t2"] = "read_v_lock"

--------------------------------------------------------------------------
(* Properties of the hex decoding (SpecHex). *)

\* The characters with a base-16 value, and the value.
IsHexDigit(c) == c \in (48..57) \cup (65..70) \cup (97..102)
HexValue(c) ==
    CASE c \in 48..57 -> c - 48
      [] c \in 65..70 -> c - 55
      [] c \in 97..102 -> c - 87

\* The text without its whitespace.
Cleaned(text) == SelectSeq(text, LAMBDA c : ~is_whitespace(c))

\* The bytes that consecutive pairs of hex digits stand for.
PairsDecoded(clean) ==
    [i \in 1..(Len(clean) \div 2) |->
        16 * HexValue(clean[2 * i - 1]) + HexValue(clean[2 * i])]

\* The cleaned text has even length and every pair is two hex digits.
WellFormedHex(text) ==
    /\ Len(Cleaned(text)) % 2 = 0
    /\ \A i \in 1..Len(Cleaned(text)) : IsHexDigit(Cleaned(text)[i])

\* C10 as stated: with the hex flag set, the payload of a write is the
\* pairs of the cleaned text decoded in order, and the write fails with an
\* InvalidInput error exactly when the cleaned text has odd length or a pair
\* is not valid base-16, for real and virtual targets alike.
HexDecoding ==
    [][(pc["t1"] = "write_decode" /\ frame["t1"].is_hex)
       => IF WellFormedHex(frame["t1"].data)
            THEN /\ pc'["t1"] # "idle"
                 /\ frame'["t1"].bytes_to_send =
                      PairsDecoded(Cleaned(frame["t1"].data))
            ELSE /\ pc'["t1"] = "idle"
                 /\ IsInvalidInput(ret'["t1"])]_vars

--------------------------------------------------------------------------
(* Properties of the write count (SpecWrites). *)

\* C11: every successful write returns "Sent N bytes" with N the number of
\* bytes of the payload: half the characters of the cleaned text when the hex
\* flag is set, the bytes of the text otherwise; whatever the port, and
\* whatever was appended to a buffer.
WriteCount ==
    [][(Returns("t1", "write") /\ ret'["t1"].kind = "Ok")
       => /\ ret'["t1"].msg = "Sent {} bytes"
          /\ ret'["t1"].n =
               IF frame["t1"].is_hex
                 THEN Len(Cleaned(frame["t1"].data)) \div 2
                 ELSE Len(as_bytes(frame["t1"].data))]_vars

\* C11 witness: the hex text "A B12" written to the reply port, which was
\* empty: 2 bytes sent, 15 appended.
WriteCountWitness ==
    /\ ret["t1"].op = "write"
    /\ ret["t1"].port_name = VirtualCom2
    /\ ret["t1"].kind = "Ok"
    /\ ret["t1"].n = 2
    /\ Len(buffers[VirtualCom2]) = 15

--------------------------------------------------------------------------
(* Properties of the port list (SpecList). *)

\* The names of the ports an enumeration reported, in its order; none when
\* it failed.
EnumeratedNames(os) ==
    IF os.kind = "Ok" THEN [i \in 1..Len(os.data) |-> os.data[i].port_name]
    ELSE <<>>

\* C12: list_ports never fails; whatever the registries hold and whether the
\* enumeration succeeds or fails, it returns the enumerated real ports (none
\* on failure) followed by the entries VIRTUAL-COM1 "Virtual Port (Echo)",
\* VIRTUAL-COM2 "Virtual Port (Reply)", VIRTUAL-COM3 "Virtual Port (Random)"
\* in that order; and it changes neither registry.
ListPorts ==
    [][/\ (frame["t1"].op = "list" \/ frame'["t1"].op = "list")
          => ports' = ports /\ buffers' = buffers
       /\ Returns("t1", "list")
          => LET r == ret'["t1"]
                 names == EnumeratedNames(r.os)
                 n == Len(names)
             IN  /\ r.kind = "Ok"
                 /\ Len(r.port_list) = n + 3
                 /\ \A i \in 1..n : r.port_list[i].port_name = names[i]
                 /\ r.port_list[n + 1] =
                      [port_name |-> <<86, 73, 82, 84, 85, 65, 76, 45,
                                       67, 79, 77, 49>>,
                       port_type |-> [text |-> "Virtual Port (Echo)",
                                      arg |-> ""]]
                 /\ r.port_list[n + 2] =
                      [port_name |-> <<86, 73, 82, 84, 85, 65, 76, 45,
                                       67, 79, 77, 50>>,
                       port_type |-> [text |-> "Virtual Port (Reply)",
                                      arg |-> ""]]
                 /\ r.port_list[n + 3] =
                      [port_name |-> <<86, 73, 82, 84, 85, 65, 76, 45,
                                       67, 79, 77, 51>>,
                       port_type |-> [text |-> "Virtual Port (Random)",
                                      arg |-> ""]]]_vars

\* C12 witness: the enumeration failed while COM1 and the echo port, with
\* unread bytes, were open: the list is the three virtual entries.
ListPortsWitness ==
    /\ ret["t1"].op = "list"
    /\ ret["t1"].os.kind = "Err"
    /\ Len(ret["t1"].port_list) = 3
    /\ Com1 \in DOMAIN ports
    /\ VirtualCom1 \in DOMAIN buffers
    /\ buffers[VirtualCom1] # <<>>

--------------------------------------------------------------------------
(* Properties of the random port (SpecRandom). *)

\* What a step added at the end of a buffer.
Appended(before, after) == SubSeq(after, Len(before) + 1, Len(after))

\* The decimal form of a number from 0 to 9999: one to four digits, no
\* leading zero.
IsDecimalUpTo9999(d) ==
    /\ Len(d) \in 1..4
    /\ \A i \in 1..Len(d) : d[i] \in 48..57
    /\ Len(d) > 1 => d[1] # 48
DecimalUpTo9999(v) ==
    LET ds == <<v \div 1000, (v \div 100) % 10, (v \div 10) % 10, v % 10>>
        first == IF v >= 1000 THEN 1 ELSE IF v >= 100 THEN 2
                 ELSE IF v >= 10 THEN 3 ELSE 4
    IN  [i \in 1..(5 - first) |-> 48 + ds[first + i - 1]]

\* C13: a successful write to the open random port appends one string
\* "Random-" and the decimal form of a value from 0 to 9999, which is the
\* clock modulo 10000 and owes nothing to the payload; a read returns what
\* the writes appended, so write+read twice returns two such strings, which
\* may be equal.
RandomPort ==
    [][\A t \in Threads :
         /\ (/\ Returns(t, "write")
             /\ frame[t].port_name = VirtualCom3
             /\ ret'[t].kind = "Ok")
            => LET appended == Appended(buffers[VirtualCom3],
                                        buffers'[VirtualCom3])
               IN  /\ buffers'[VirtualCom3] = buffers[VirtualCom3] \o appended
                   /\ Len(appended) >= 8
                   /\ SubSeq(appended, 1, 7) = <<82, 97, 110, 100, 111, 109, 45>>
                   /\ IsDecimalUpTo9999(SubSeq(appended, 8, Len(appended)))
                   /\ appended =
                        <<82, 97, 110, 100, 111, 109, 45>>
                            \o DecimalUpTo9999(ret'[t].os.data[1] % 10000)
         /\ (/\ Returns(t, "read")
             /\ frame[t].port_name = VirtualCom3
             /\ VirtualCom3 \in DOMAIN buffers)
            => /\ ret'[t].bytes = buffers[VirtualCom3]
               /\ buffers'[VirtualCom3] = <<>>]_vars

\* C13 witness: each caller wrote and read, and both got "Random-42".
RandomPortWitness ==
    /\ ret["t1"].op = "read"
    /\ ret["t1"].bytes = <<82, 97, 110, 100, 111, 109, 45, 52, 50>>
    /\ ret["t2"].op = "read"
    /\ ret["t2"].bytes = <<82, 97, 110, 100, 111, 109, 45, 52, 50>>

--------------------------------------------------------------------------
(* Properties of the settings of a real port (SpecConfig). *)

\* C14: a real open builds the port with parity None/Odd/Even as given and
\* none for any other string, one or two stop bits as given and one for any
\* other number, five to eight data bits as given and eight for any other
\* number; and an open fails only when the OS open fails.
PermissiveConfig ==
    [][(Returns("t1", "open") /\ ~IsVirtual(frame["t1"].port_name))
       => LET f == frame["t1"]
              r == ret'["t1"]
          IN  IF r.kind = "Ok"
                THEN LET port == ports'[f.port_name] IN
                     /\ port.parity =
                          IF f.parity \in {"None", "Odd", "Even"}
                            THEN f.parity ELSE "None"
                     /\ port.stop_bits =
                          IF f.stop_bits = 2 THEN "Two" ELSE "One"
                     /\ port.data_bits =
                          IF f.data_bits = 5 THEN "Five"
                          ELSE IF f.data_bits = 6 THEN "Six"
                          ELSE IF f.data_bits = 7 THEN "Seven"
                          ELSE "Eight"
                ELSE /\ r.os.call = "open"
                     /\ r.os.kind = "Err"
                     /\ r.msg = "Failed to open port: {}"]_vars

\* C14 witness: the OS has opened a port asked for with 9 data bits, 0 stop
\* bits and parity "Mark": it has eight, one and none.
PermissiveConfigWitness ==
    /\ pc["t1"] = "open_r"
    /\ frame["t1"].data_bits = 9
    /\ frame["t1"].stop_bits = 0
    /\ frame["t1"].parity = "Mark"
    /\ frame["t1"].port.data_bits = "Eight"
    /\ frame["t1"].port.stop_bits = "One"
    /\ frame["t1"].port.parity = "None"

--------------------------------------------------------------------------
(* Properties of the names (SpecNames). *)

\* The name begins with "VIRTUAL-", in this case.
Prefixed(port_name) ==
    /\ Len(port_name) >= 8
    /\ SubSeq(port_name, 1, 8) = <<86, 73, 82, 84, 85, 65, 76, 45>>

\* Every key of the buffer map is prefixed and no key of the registry is.
NamesApart ==
    /\ \A k \in DOMAIN buffers : Prefixed(k)
    /\ \A k \in DOMAIN ports : ~Prefixed(k)
    /\ DOMAIN buffers \cap DOMAIN ports = {}

\* C15: in every reachable state every key of the buffer map begins with
\* "VIRTUAL-" and no key of the real registry does, so no name is open in
\* both; a command on a prefixed name never changes the real registry, one
\* on another name never changes the buffer map.
NamespaceSeparation ==
    [][/\ NamesApart
       /\ NamesApart'
       /\ LET f == IF pc["t1"] = "idle" THEN frame'["t1"] ELSE frame["t1"] IN
          f.op \in {"open", "close", "write", "read"}
             => IF Prefixed(f.port_name) THEN ports' = ports
                ELSE buffers' = buffers]_vars

\* C15 witness: "virtual-com1" is open as a real port next to two open
\* virtual ports, one with bytes in its buffer.
NamespaceSeparationWitness ==
    /\ LowerVirtualCom1 \in DOMAIN ports
    /\ VirtualX \in DOMAIN buffers
    /\ VirtualCom3 \in DOMAIN buffers
    /\ buffers[VirtualCom3] # <<>>

\* The buffer of the unlisted name is empty whenever it is open, now and
\* after the step.
UnlistedEmpty ==
    /\ VirtualX \in DOMAIN buffers => buffers[VirtualX] = <<>>
    /\ VirtualX \in DOMAIN buffers' => buffers'[VirtualX] = <<>>

\* An open of the unlisted name succeeds and creates its buffer; a read
\* while it is open returns no bytes.
UnlistedOpenRead ==
    /\ (Returns("t1", "open") /\ frame["t1"].port_name = VirtualX)
          => ret'["t1"].kind = "Ok" /\ VirtualX \in DOMAIN buffers'
    /\ (/\ Returns("t1", "read")
        /\ frame["t1"].port_name = VirtualX
        /\ VirtualX \in DOMAIN buffers)
          => ret'["t1"].kind = "Ok" /\ ret'["t1"].bytes = <<>>

\* A write to the unlisted name, open.
UnlistedWrite ==
    /\ Returns("t1", "write")
    /\ frame["t1"].port_name = VirtualX
    /\ VirtualX \in DOMAIN buffers

--------------------------------------------------------------------------
(* Properties of the locks and of failed commands (SpecConcReal, Spec). *)

\* The steps of a command between its lookup or OS call and its return, by
\* registry.
RealWork ==
    {"open_os", "open_r", "close_r", "write_r", "write_io", "read_r",
     "read_timeout", "read_io"}
VirtualWork == {"open_v", "close_v", "write_v", "read_v", "read_v_clear"}

\* C16 as stated: every command on a registry holds the lock of the registry
\* for all of its work, the OS call it makes for a real port included, so no
\* two commands are at work on a registry at once.
LockHeldThroughout ==
    /\ \A t \in Threads :
         /\ pc[t] \in RealWork => ports_lock = t
         /\ pc[t] \in VirtualWork => buffers_lock = t
    /\ \A t, u \in Threads :
         (pc[t] \in RealWork /\ pc[u] \in RealWork) => t = u

\* This step ends a command of thread t with an error.
ReturnsErr(t) == pc[t] # "idle" /\ pc'[t] = "idle" /\ ret'[t].kind = "Err"

\* This step ends a command of thread t with success.
ReturnsOk(t) == pc[t] # "idle" /\ pc'[t] = "idle" /\ ret'[t].kind = "Ok"

\* C17: a command that returns an error leaves the open names of both
\* registries and every buffer as they were when it was called: the step that
\* returns the error changes no registry and releases no handle, and no
\* step but one that returns success changes the open names or a buffer; so
\* a failed write or read leaves the port open.
UnchangedOnError ==
    [][/\ ReturnsErr("t1")
          => ports' = ports /\ buffers' = buffers /\ live' = live
       /\ ~ReturnsOk("t1")
          => DOMAIN ports' = DOMAIN ports /\ buffers' = buffers]_vars

\* C17 witness: the device refused a write to COM1, which is open still, its
\* handle live.
UnchangedOnErrorWitness ==
    /\ ret["t1"].op = "write"
    /\ ret["t1"].port_name = Com1
    /\ ret["t1"].kind = "Err"
    /\ ret["t1"].os.call = "write_all"
    /\ Com1 \in DOMAIN ports
    /\ ports[Com1].hid \in live

--------------------------------------------------------------------------
(* Properties of termination and of the OS handles (SpecFair, SpecConcReal). *)

\* No caller holds both locks, none holds one while it waits for the other,
\* and none holds one after its command has returned.
LocksApart ==
    \A t \in Threads :
        /\ ~(ports_lock = t /\ buffers_lock = t)
        /\ pc[t] \in AtPortsLock => buffers_lock # t
        /\ pc[t] \in AtBuffersLock => ports_lock # t
        /\ pc[t] = "idle" => (ports_lock # t /\ buffers_lock # t)

HandlesInRegistry == {ports[k].hid : k \in DOMAIN ports}
HandlesInFlight ==
    {frame[t].port.hid : t \in {u \in Threads : pc[u] \in {"open_r_lock", "open_r"}}}

\* C19: the live OS handles are the ones in the real registry, one for each
\* open name, and the ones of opens on their way to the registry; so when no
\* command is in progress they are exactly the ones in the registry: a close
\* releases the handle it removes, an open the handle it replaces.
NoHandleLeak ==
    /\ live = HandlesInRegistry \cup HandlesInFlight
    /\ Cardinality(HandlesInRegistry) = Cardinality(DOMAIN ports)
    /\ (\A t \in Threads : pc[t] = "idle") => live = HandlesInRegistry

\* C19 witness: two opens of COM1 and a close have returned, in this order
\* or with the opens overlapping: no handle is live.
NoHandleLeakWitness ==
    /\ \A t \in Threads : pc[t] = "idle"
    /\ opened = 2
    /\ ret["t1"].op = "open"
    /\ ret["t1"].replaced_port # {}
    /\ ret["t2"].op = "close"
    /\ ret["t2"].kind = "Ok"
    /\ ports = EmptyMap
    /\ live = {}

==========================================================================
